---- MODULE Spec2Model ----
(***************************************************************************)
(* makeGen (src/makeGen.c): a command-line tool that writes a Makefile     *)
(* from its arguments.  The model follows main() statement by statement:   *)
(* one action per step of main, the helper functions as operators.         *)
(*                                                                         *)
(* An invocation is a process p with its own argv, locals, stdout, stdio   *)
(* stream and exit status.  All processes share one directory, of which    *)
(* only the path MAKEFILE_NAME matters.                                    *)
(*                                                                         *)
(* Text is modelled as a sequence of atoms: every argv token is one atom,  *)
(* every piece of literal text of a format string is one atom, and the     *)
(* white-space characters "\n", " " (after a token) and "\t" are atoms of  *)
(* their own, so that lines and token separators can be inspected.         *)
(***************************************************************************)
EXTENDS Integers, Sequences, FiniteSets, TLC

VARIABLES
    argv,            \* argv[p]: the argument tokens of invocation p (argv[p][i+1] is C's argv[i])
    pc,              \* pc[p]: the position of invocation p in main
    sourceFlagIdx,   \* main's local, set by findFlags
    compilerFlagIdx, \* main's local, set by findFlags
    compiler,        \* main's local
    makeFile,        \* main's FILE *: "none" (not opened), "open", "closed", "null" (fopen failed)
    buffer,          \* the stdio buffer of the stream makeFile
    stdout,          \* stdout[p]: the printf calls of p, in order
    exitStatus,      \* exitStatus[p]: meaningful once pc[p] = "done"
    fs,              \* the file at MAKEFILE_NAME: [exists, content]
    fsAtStart        \* fsAtStart[p]: fs as it was when p started (history)

vars == <<argv, pc, sourceFlagIdx, compilerFlagIdx, compiler, makeFile, buffer,
          stdout, exitStatus, fs, fsAtStart>>

----------------------------------------------------------------------------
(* The macros of makeGen.c. *)

MIN_ARGS == 4
FLAG_NOT_FOUND == -1
CFLAGS_FLAG_LOCATION == 2
CFLAGS_FLAG == "-f"
SOURCE_FLAG == "-s"
COMPILER_FLAG == "-cc"

----------------------------------------------------------------------------
(* Bounds and the inputs drawn from them. *)

\* The longest argument list of a single invocation (C's argc).
MaxArgc == 7
\* The longest argument list when two invocations share the directory.
MaxArgcTwo == 5

Procs == {1, 2}

\* argv[0]: the program name, which the shell may make any string.
ProgNames == {"makeGen", "-s"}
\* argv[1]: the name of the executable.
ExecNames == {"build", "-s"}
\* argv[2..]: markers, a flag and a source file.
Tokens == {"-f", "-s", "-cc", "-O2", "a.c"}

ProgNamesTwo == {"makeGen"}
ExecNamesTwo == {"build"}
TokensTwo == {"-f", "-s", "-cc", "a.c"}

\* Every argument list of at most maxArgc tokens (argc >= 1).
ArgvSet(maxArgc, progs, execs, toks) ==
    {<<n>> : n \in progs}
      \cup UNION {{<<n, e>> \o t : n \in progs, e \in execs, t \in [1..k -> toks]}
                   : k \in 0..(maxArgc - 2)}

Argc(a) == Len(a)
\* C's argv[i] (0-based).
Arg(a, i) == a[i + 1]

NoFile == [exists |-> FALSE, content |-> <<>>]
\* A Makefile the user wrote by hand before running makeGen.
UserFile == [exists |-> TRUE, content |-> <<"# hand-written", "\n">>]

----------------------------------------------------------------------------
(* Helper functions of makeGen.c. *)

\* printUsage(): three printf calls.
printUsage ==
    << "Usage:\n",
       "makeGen {executableName} -f {CFLAGS} -s {SOURCE FILES} [-cc {desired compiler}]\n",
       "Fields in brackets are optional.\n" >>

\* alertSuccess(): one printf call.
alertSuccess == << "Successfully created makefile.\n" >>

\* findFlagsLoop with a bug: the compiler marker is taken wherever it stands,
\* also before the sources marker.
RECURSIVE findFlagsLoopAnyOrder(_, _, _, _)
findFlagsLoopAnyOrder(a, i, s, c) ==
    IF i < Argc(a)
    THEN LET s1 == IF Arg(a, i) = SOURCE_FLAG /\ s = FLAG_NOT_FOUND THEN i ELSE s
             c1 == IF Arg(a, i) = COMPILER_FLAG /\ c = FLAG_NOT_FOUND THEN i ELSE c
         IN  findFlagsLoopAnyOrder(a, i + 1, s1, c1)
    ELSE [sourceFlagIdx |-> s, compilerFlagIdx |-> c]

\* The loop of findFlags, from index i on, with the values s and c that
\* *sourceFlagIdx and *compilerFlagIdx hold so far.
RECURSIVE findFlagsLoop(_, _, _, _)
findFlagsLoop(a, i, s, c) ==
    IF i < Argc(a)
    THEN LET s1 == IF Arg(a, i) = SOURCE_FLAG /\ s = FLAG_NOT_FOUND THEN i ELSE s
             c1 == IF /\ Arg(a, i) = COMPILER_FLAG
                      /\ s1 # FLAG_NOT_FOUND
                      /\ c = FLAG_NOT_FOUND
                   THEN i ELSE c
         IN  findFlagsLoop(a, i + 1, s1, c1)
    ELSE [sourceFlagIdx |-> s, compilerFlagIdx |-> c]

\* findFlags(argc, argv, &sourceFlagIdx, &compilerFlagIdx)
findFlags(a) == findFlagsLoop(a, 0, FLAG_NOT_FOUND, FLAG_NOT_FOUND)

\* main's choice of the compiler.
chooseCompiler(a, c) ==
    IF c # FLAG_NOT_FOUND /\ c + 1 < Argc(a) THEN Arg(a, c + 1) ELSE "gcc"

\* for (i = from; i < to; i++) fprintf(makeFile, "%s ", argv[i]);
RECURSIVE printTokens(_, _, _)
printTokens(a, from, to) ==
    IF from < to
    THEN <<Arg(a, from), " ">> \o printTokens(a, from + 1, to)
    ELSE <<>>

\* sourceEnd with a bug: the sources always run to the end of the arguments.
sourceEndOfArguments(a, c) == Argc(a)

\* main's sourceEnd.
sourceEnd(a, c) == IF c = FLAG_NOT_FOUND THEN Argc(a) ELSE c

\* printHeader(makeFile)
printHeader ==
    << "# Automatically generated makefile", "\n",
       "# Generated using makeGen by Juan Jovel", "\n",
       "\n" >>

\* printDefinitions with a bug: the loop starts at the flags marker, not after it.
printDefinitionsFromMarker(a, cc, s) ==
    <<"CC=", cc, "\n">> \o <<"CFLAGS=">>
      \o printTokens(a, CFLAGS_FLAG_LOCATION, s) \o <<"\n">>

\* The compiler and CFLAGS definitions main prints.
printDefinitions(a, cc, s) ==
    <<"CC=", cc, "\n">> \o <<"CFLAGS=">>
      \o printTokens(a, CFLAGS_FLAG_LOCATION + 1, s) \o <<"\n">>

\* The source files main prints.
printTargets(a, s, c) ==
    <<"TARGETS=">> \o printTokens(a, s + 1, sourceEnd(a, c))

\* printRules with a bug: the rule bodies are indented with spaces, not a tab.
printRulesSpaces(executableName) ==
    << "\n", "\n",
       "all:", "\n",
       "    ", "$(CC) $(CFLAGS) -o ", executableName, " $(TARGETS)", "\n",
       "\n",
       "clean:", "\n",
       "    ", "rm -f ", executableName, "\n",
       "\n",
       "# End automatically generated makeFile", "\n" >>

\* printRules(makeFile, executableName)
printRules(executableName) ==
    << "\n", "\n",
       "all:", "\n",
       "\t", "$(CC) $(CFLAGS) -o ", executableName, " $(TARGETS)", "\n",
       "\n",
       "clean:", "\n",
       "\t", "rm -f ", executableName, "\n",
       "\n",
       "# End automatically generated makeFile", "\n" >>

\* makeFileExists with a bug: the test of access's result is inverted.
makeFileExistsInverted == ~fs.exists

\* access(MAKEFILE_NAME, F_OK) != -1
makeFileExists == fs.exists

\* fopen(MAKEFILE_NAME, "w+") when it succeeds: the file is created, or
\* truncated to length zero when it exists.
fopenWPlus(f) == [exists |-> TRUE, content |-> <<>>]

\* The write of a stream's buffer at offset 0 of the file (the stream has
\* written nothing before): the bytes replace the head of the file.
flush(f, data) ==
    [exists |-> f.exists,
     content |-> data \o SubSeq(f.content, Len(data) + 1, Len(f.content))]

----------------------------------------------------------------------------
(* The steps of main, for invocation p. *)

Exit(p, status) ==
    /\ pc' = [pc EXCEPT ![p] = "done"]
    /\ exitStatus' = [exitStatus EXCEPT ![p] = status]

Printf(p, lines) == stdout' = [stdout EXCEPT ![p] = @ \o lines]

Fprintf(p, atoms) == buffer' = [buffer EXCEPT ![p] = @ \o atoms]

\* if (argc == 1 || argc < MIN_ARGS) { printUsage(); return 0; }
CheckArgs(p) ==
    /\ pc[p] = "start"
    /\ fsAtStart' = [fsAtStart EXCEPT ![p] = fs]
    /\ IF Argc(argv[p]) = 1 \/ Argc(argv[p]) < MIN_ARGS
       THEN Printf(p, printUsage) /\ Exit(p, 0)
       ELSE /\ pc' = [pc EXCEPT ![p] = "validate"]
            /\ UNCHANGED <<stdout, exitStatus>>
    /\ UNCHANGED <<argv, sourceFlagIdx, compilerFlagIdx, compiler, makeFile,
                   buffer, fs>>

\* validateInvocation with a bug: the error is printed but exit(1) is missing,
\* so main goes on.
ValidateInvocationNoExit(p) ==
    /\ pc[p] = "validate"
    /\ IF Arg(argv[p], CFLAGS_FLAG_LOCATION) # CFLAGS_FLAG
       THEN Printf(p, <<"Invalid invocation.\n", "Error: No flags found.\n">>
                        \o printUsage)
       ELSE UNCHANGED stdout
    /\ pc' = [pc EXCEPT ![p] = "findFlags"]
    /\ UNCHANGED <<argv, sourceFlagIdx, compilerFlagIdx, compiler, makeFile,
                   buffer, exitStatus, fs, fsAtStart>>

\* validateInvocation(argv)
ValidateInvocation(p) ==
    /\ pc[p] = "validate"
    /\ IF Arg(argv[p], CFLAGS_FLAG_LOCATION) # CFLAGS_FLAG
       THEN /\ Printf(p, <<"Invalid invocation.\n", "Error: No flags found.\n">>
                           \o printUsage)
            /\ Exit(p, 1)
       ELSE /\ pc' = [pc EXCEPT ![p] = "findFlags"]
            /\ UNCHANGED <<stdout, exitStatus>>
    /\ UNCHANGED <<argv, sourceFlagIdx, compilerFlagIdx, compiler, makeFile,
                   buffer, fs, fsAtStart>>

\* findFlags(argc, argv, &sourceFlagIdx, &compilerFlagIdx);
FindFlags(p) ==
    /\ pc[p] = "findFlags"
    /\ sourceFlagIdx' = [sourceFlagIdx EXCEPT ![p] = findFlags(argv[p]).sourceFlagIdx]
    /\ compilerFlagIdx' =
         [compilerFlagIdx EXCEPT ![p] = findFlags(argv[p]).compilerFlagIdx]
    /\ pc' = [pc EXCEPT ![p] = "compiler"]
    /\ UNCHANGED <<argv, compiler, makeFile, buffer, stdout, exitStatus, fs,
                   fsAtStart>>

\* if (compilerFlagIdx != FLAG_NOT_FOUND && ...) compiler = ...; else compiler = "gcc";
SetCompiler(p) ==
    /\ pc[p] = "compiler"
    /\ compiler' = [compiler EXCEPT ![p] = chooseCompiler(argv[p], compilerFlagIdx[p])]
    /\ pc' = [pc EXCEPT ![p] = "checkSource"]
    /\ UNCHANGED <<argv, sourceFlagIdx, compilerFlagIdx, makeFile, buffer, stdout,
                   exitStatus, fs, fsAtStart>>

\* The sources check with a bug: the file is created before the check, as if
\* fopen stood above it in main.
CheckSourceFlagAfterCreate(p) ==
    /\ pc[p] = "checkSource"
    /\ fs' = fopenWPlus(fs)
    /\ IF sourceFlagIdx[p] = FLAG_NOT_FOUND
       THEN /\ Printf(p, << "Invalid invocation.\n",
                            "Error: No source files flag \"-s\" found.\n" >>
                           \o printUsage)
            /\ Exit(p, 1)
       ELSE /\ pc' = [pc EXCEPT ![p] = "checkExists"]
            /\ UNCHANGED <<stdout, exitStatus>>
    /\ UNCHANGED <<argv, sourceFlagIdx, compilerFlagIdx, compiler, makeFile,
                   buffer, fsAtStart>>

\* if (sourceFlagIdx == FLAG_NOT_FOUND) { ...; return 1; }
CheckSourceFlag(p) ==
    /\ pc[p] = "checkSource"
    /\ IF sourceFlagIdx[p] = FLAG_NOT_FOUND
       THEN /\ Printf(p, << "Invalid invocation.\n",
                            "Error: No source files flag \"-s\" found.\n" >>
                           \o printUsage)
            /\ Exit(p, 1)
       ELSE /\ pc' = [pc EXCEPT ![p] = "checkExists"]
            /\ UNCHANGED <<stdout, exitStatus>>
    /\ UNCHANGED <<argv, sourceFlagIdx, compilerFlagIdx, compiler, makeFile,
                   buffer, fs, fsAtStart>>

\* if (makeFileExists()) { ...; return 1; }
CheckMakeFileExists(p) ==
    /\ pc[p] = "checkExists"
    /\ IF makeFileExists
       THEN /\ Printf(p, << "Unable to create makefile:\n",
                            "makeFile already exists in this directory.\n" >>)
            /\ Exit(p, 1)
       ELSE /\ pc' = [pc EXCEPT ![p] = "open"]
            /\ UNCHANGED <<stdout, exitStatus>>
    /\ UNCHANGED <<argv, sourceFlagIdx, compilerFlagIdx, compiler, makeFile,
                   buffer, fs, fsAtStart>>

\* FILE *makeFile = fopen(MAKEFILE_NAME, "w+"); if (makeFile == NULL) { ...; return 1; }
\* Whether the file system lets the file be opened is the environment's choice.
OpenMakeFile(p) ==
    /\ pc[p] = "open"
    /\ \E granted \in BOOLEAN :
         IF granted
         THEN /\ fs' = fopenWPlus(fs)
              /\ makeFile' = [makeFile EXCEPT ![p] = "open"]
              /\ pc' = [pc EXCEPT ![p] = "header"]
              /\ UNCHANGED <<stdout, exitStatus>>
         ELSE /\ makeFile' = [makeFile EXCEPT ![p] = "null"]
              /\ Printf(p, << "FATAL ERROR:\n", "Unable to create makefile:\n",
                              "makeFile could not be created.\n" >>)
              /\ Exit(p, 1)
              /\ UNCHANGED fs
    /\ UNCHANGED <<argv, sourceFlagIdx, compilerFlagIdx, compiler, buffer,
                   fsAtStart>>

\* One step of main that only writes to the stream.
Write(p, at, atoms, next) ==
    /\ pc[p] = at
    /\ Fprintf(p, atoms)
    /\ pc' = [pc EXCEPT ![p] = next]
    /\ UNCHANGED <<argv, sourceFlagIdx, compilerFlagIdx, compiler, makeFile,
                   stdout, exitStatus, fs, fsAtStart>>

\* printHeader(makeFile);
PrintHeader(p) == Write(p, "header", printHeader, "definitions")

\* The CC= line and the CFLAGS= line.
PrintDefinitions(p) ==
    Write(p, "definitions",
          printDefinitions(argv[p], compiler[p], sourceFlagIdx[p]), "targets")

\* TARGETS= and the source files.
PrintTargets(p) ==
    Write(p, "targets",
          printTargets(argv[p], sourceFlagIdx[p], compilerFlagIdx[p]), "rules")

\* printRules(makeFile, executableName);  executableName = argv[1]
PrintRules(p) == Write(p, "rules", printRules(Arg(argv[p], 1)), "close")

\* main with a bug: fclose is missing; the buffer is written when the process
\* ends, and the stream is never closed.
CloseMakeFileMissing(p) ==
    /\ pc[p] = "close"
    /\ fs' = flush(fs, buffer[p])
    /\ buffer' = [buffer EXCEPT ![p] = <<>>]
    /\ pc' = [pc EXCEPT ![p] = "alert"]
    /\ UNCHANGED <<argv, sourceFlagIdx, compilerFlagIdx, compiler, makeFile,
                   stdout, exitStatus, fsAtStart>>

\* fclose(makeFile);
CloseMakeFile(p) ==
    /\ pc[p] = "close"
    /\ fs' = flush(fs, buffer[p])
    /\ buffer' = [buffer EXCEPT ![p] = <<>>]
    /\ makeFile' = [makeFile EXCEPT ![p] = "closed"]
    /\ pc' = [pc EXCEPT ![p] = "alert"]
    /\ UNCHANGED <<argv, sourceFlagIdx, compilerFlagIdx, compiler, stdout,
                   exitStatus, fsAtStart>>

\* alertSuccess(); return 0;
AlertSuccess(p) ==
    /\ pc[p] = "alert"
    /\ Printf(p, alertSuccess)
    /\ Exit(p, 0)
    /\ UNCHANGED <<argv, sourceFlagIdx, compilerFlagIdx, compiler, makeFile,
                   buffer, fs, fsAtStart>>

\* The steps of main after the argument count is checked.
Proceed(p) ==
    \/ ValidateInvocation(p)
    \/ FindFlags(p)
    \/ SetCompiler(p)
    \/ CheckSourceFlag(p)
    \/ CheckMakeFileExists(p)
    \/ OpenMakeFile(p)
    \/ PrintHeader(p)
    \/ PrintDefinitions(p)
    \/ PrintTargets(p)
    \/ PrintRules(p)
    \/ CloseMakeFile(p)
    \/ AlertSuccess(p)

----------------------------------------------------------------------------
(* Specifications. *)

\* The state of the processes before main runs; the locals hold no value
\* the program reads before it assigns them.
InitProc ==
    /\ sourceFlagIdx = [p \in Procs |-> FLAG_NOT_FOUND]
    /\ compilerFlagIdx = [p \in Procs |-> FLAG_NOT_FOUND]
    /\ compiler = [p \in Procs |-> ""]
    /\ makeFile = [p \in Procs |-> "none"]
    /\ buffer = [p \in Procs |-> <<>>]
    /\ stdout = [p \in Procs |-> <<>>]
    /\ exitStatus = [p \in Procs |-> 0]
    /\ fs \in {NoFile, UserFile}
    /\ fsAtStart = [p \in Procs |-> fs]

\* One invocation (process 1) in a directory that may hold a Makefile.
Init ==
    /\ argv \in {[p \in Procs |-> IF p = 1 THEN a ELSE <<>>]
                   : a \in ArgvSet(MaxArgc, ProgNames, ExecNames, Tokens)}
    /\ pc = [p \in Procs |-> IF p = 1 THEN "start" ELSE "absent"]
    /\ InitProc

\* Two invocations in the same directory.
InitTwo ==
    /\ argv \in [Procs -> ArgvSet(MaxArgcTwo, ProgNamesTwo, ExecNamesTwo, TokensTwo)]
    /\ pc = [p \in Procs |-> "start"]
    /\ InitProc

\* Invocations run one after the other: p starts once every earlier one has ended.
InSequence(p) == \A q \in Procs : q < p => pc[q] \in {"done", "absent"}

Next ==
    \E p \in Procs :
        \/ InSequence(p) /\ CheckArgs(p)
        \/ Proceed(p)

\* Invocations run at the same time: any interleaving of their steps.
NextConcurrent ==
    \E p \in Procs :
        \/ CheckArgs(p)
        \/ Proceed(p)

Spec == Init /\ [][Next]_vars

SpecSequence == InitTwo /\ [][Next]_vars

SpecConcurrent == InitTwo /\ [][NextConcurrent]_vars

----------------------------------------------------------------------------
(* What the claims speak of, stated from the argument list alone. *)

\* Token tok occurs at some index >= from.
Occurs(a, tok, from) == \E i \in from..(Argc(a) - 1) : Arg(a, i) = tok

\* The index of the first occurrence of tok at an index >= from.
First(a, tok, from) ==
    CHOOSE i \in from..(Argc(a) - 1) :
        /\ Arg(a, i) = tok
        /\ \A j \in from..(i - 1) : Arg(a, j) # tok

\* The index of the first "-s".
SourcesMarker(a) == First(a, "-s", 0)

\* There is a "-cc" after the first "-s".
HasCompilerMarker(a) == Occurs(a, "-cc", SourcesMarker(a) + 1)

\* The index of the first "-cc" after the first "-s".
CompilerMarker(a) == First(a, "-cc", SourcesMarker(a) + 1)

\* Where the source tokens end: the compiler marker, or the end of the arguments.
SourcesEnd(a) == IF HasCompilerMarker(a) THEN CompilerMarker(a) ELSE Argc(a)

\* The tokens at indices lo..hi, each followed by one space.
Joined(a, lo, hi) ==
    IF hi < lo THEN <<>>
    ELSE [k \in 1..(2 * (hi - lo + 1)) |->
            IF k % 2 = 1 THEN Arg(a, lo + (k - 1) \div 2) ELSE " "]

\* The lines of a text: the atoms between line breaks (an unterminated tail
\* counts as a line).
RECURSIVE LinesFrom(_, _, _)
LinesFrom(text, i, line) ==
    IF i > Len(text) THEN (IF line = <<>> THEN <<>> ELSE <<line>>)
    ELSE IF text[i] = "\n" THEN <<line>> \o LinesFrom(text, i + 1, <<>>)
    ELSE LinesFrom(text, i + 1, Append(line, text[i]))

Lines(text) == LinesFrom(text, 1, <<>>)

\* The lines of a text that begin with the atom head.
StartsWith(line, head) == Len(line) >= 1 /\ line[1] = head
LinesWith(text, head) == SelectSeq(Lines(text), LAMBDA l : StartsWith(l, head))

Atoms(line) == {line[k] : k \in 1..Len(line)}

\* The last n printf calls of p are lines.
Printed(p, lines) ==
    /\ Len(stdout[p]) >= Len(lines)
    /\ SubSeq(stdout[p], Len(stdout[p]) - Len(lines) + 1, Len(stdout[p])) = lines

Done(p) == pc[p] = "done"

\* Invocation p has ended and has written and closed the file.
Wrote(p) == Done(p) /\ makeFile[p] = "closed"

\* The argument validator accepts a.
PassesValidator(a) == Argc(a) >= 4 /\ Arg(a, 2) = "-f"

\* a is valid on its own: it passes the validator and has a sources marker.
Valid(a) == PassesValidator(a) /\ Occurs(a, "-s", 0)

----------------------------------------------------------------------------
(* C1 *)

\* The number of tokens after "-f" and before the first "-s".
NFlags(a) == SourcesMarker(a) - 3
\* The number of source tokens.
MSources(a) == SourcesEnd(a) - SourcesMarker(a) - 1

C1_Case(p) ==
    /\ Wrote(p)
    /\ Valid(argv[p])
    /\ ~fsAtStart[p].exists
    /\ NFlags(argv[p]) >= 1
    /\ MSources(argv[p]) >= 1

\* C1: for a valid invocation with N >= 1 tokens between "-f" and the first
\* "-s" and M >= 1 source tokens, the written file has exactly one CFLAGS=
\* line: "CFLAGS=", then those N tokens in argv order, each followed by one
\* space, then the line break, and nothing else.
C1_CFlagsLine ==
    \A p \in Procs :
        C1_Case(p) =>
            LinesWith(fs.content, "CFLAGS=")
              = << <<"CFLAGS=">> \o Joined(argv[p], 3, SourcesMarker(argv[p]) - 1) >>

\* Two different flag tokens were written.
C1_Witness ==
    /\ C1_Case(1)
    /\ NFlags(argv[1]) >= 2
    /\ Arg(argv[1], 3) # Arg(argv[1], 4)

----------------------------------------------------------------------------
(* C2 *)

\* C2: whenever the file is written, it has exactly one TARGETS= line:
\* "TARGETS=", then the tokens after the first "-s" and before the first
\* "-cc" that follows it (or the end of the arguments), in argv order, each
\* followed by one space; the "-cc" marker is not on the line, nor is the
\* argument after it.
C2_TargetsLine ==
    \A p \in Procs :
        Wrote(p) =>
            LET a == argv[p]
                targets == LinesWith(fs.content, "TARGETS=")
            IN  /\ targets = << <<"TARGETS=">>
                                  \o Joined(a, SourcesMarker(a) + 1, SourcesEnd(a) - 1) >>
                /\ "-cc" \notin Atoms(targets[1])
                /\ Len(targets[1]) = 1 + 2 * MSources(a)

\* A file written from arguments with sources, a "-cc" and a compiler name.
C2_Witness ==
    /\ Wrote(1)
    /\ SourcesMarker(argv[1]) > 2
    /\ HasCompilerMarker(argv[1])
    /\ MSources(argv[1]) >= 1
    /\ CompilerMarker(argv[1]) + 1 < Argc(argv[1])

----------------------------------------------------------------------------
(* C3 *)

\* The compiler the arguments name, or the default.
ExpectedCompiler(a) ==
    IF HasCompilerMarker(a) /\ CompilerMarker(a) + 1 < Argc(a)
    THEN Arg(a, CompilerMarker(a) + 1)
    ELSE "gcc"

\* C3: whenever the file is written, its CC= line names the token after the
\* first "-cc" that comes after the first "-s", when there is such a "-cc" and
\* a token after it; otherwise the line is "CC=gcc".
C3_CompilerLine ==
    \A p \in Procs :
        Wrote(p) =>
            LinesWith(fs.content, "CC=") = << <<"CC=", ExpectedCompiler(argv[p])>> >>

\* A file written with a "-cc" before "-s" (ignored) and a "-cc" after it
\* that names a compiler.
C3_Witness ==
    /\ Wrote(1)
    /\ NFlags(argv[1]) >= 1
    /\ Arg(argv[1], 3) = "-cc"
    /\ HasCompilerMarker(argv[1])
    /\ CompilerMarker(argv[1]) + 1 < Argc(argv[1])
    /\ LinesWith(fs.content, "CC=") # << <<"CC=", "gcc">> >>

----------------------------------------------------------------------------
(* C4 *)

FileExistsMessage ==
    << "Unable to create makefile:\n", "makeFile already exists in this directory.\n" >>

\* The first run wrote the file and the second run, valid on its own, has ended.
C4_Case ==
    /\ Wrote(1) /\ Valid(argv[1])
    /\ Done(2) /\ Valid(argv[2])

\* C4: when two valid invocations run one after the other in the same
\* directory and the first one generated the file, the second one ends with
\* the file-exists message and exit status 1, and the file is what it was
\* after the first run.
C4_SecondRunFails ==
    C4_Case =>
        /\ exitStatus[2] = 1
        /\ stdout[2] = FileExistsMessage
        /\ makeFile[2] = "none"
        /\ fs = fsAtStart[2]
        /\ fs.exists
        /\ Lines(fs.content)[4] = <<"CC=", ExpectedCompiler(argv[1])>>
        /\ LinesWith(fs.content, "TARGETS=")
             = << <<"TARGETS=">> \o Joined(argv[1], SourcesMarker(argv[1]) + 1,
                                          SourcesEnd(argv[1]) - 1) >>

\* Two runs with different valid arguments that would write different files.
C4_Witness ==
    /\ C4_Case
    /\ MSources(argv[1]) # MSources(argv[2])

----------------------------------------------------------------------------
(* C5 *)

UsageErrorMessage == <<"Invalid invocation.\n", "Error: No flags found.\n">>

\* C5: an invocation with fewer than 4 tokens prints exactly the usage text
\* and ends with status 0; one with at least 4 tokens whose token 2 is not
\* "-f" prints the usage text (after the error) and ends with status 1; in
\* both cases it goes no further than the validator and the file is neither
\* created nor modified.
C5_UsageErrors ==
    \A p \in Procs :
        /\ (pc[p] # "absent" /\ ~PassesValidator(argv[p])) =>
              /\ pc[p] \in {"start", "validate", "done"}
              /\ makeFile[p] = "none"
              /\ buffer[p] = <<>>
              /\ pc[p] # "start" => fs = fsAtStart[p]
        /\ (Done(p) /\ Argc(argv[p]) < 4) =>
              /\ exitStatus[p] = 0
              /\ stdout[p] = printUsage
        /\ (Done(p) /\ Argc(argv[p]) >= 4 /\ Arg(argv[p], 2) # "-f") =>
              /\ exitStatus[p] = 1
              /\ stdout[p] = UsageErrorMessage \o printUsage

\* An invocation of 4 tokens or more, without "-f" at index 2, has ended in
\* a directory that holds a Makefile.
C5_Witness ==
    /\ Done(1)
    /\ Argc(argv[1]) >= 4
    /\ Arg(argv[1], 2) # "-f"
    /\ Arg(argv[1], 3) = "-f"
    /\ fs = UserFile

----------------------------------------------------------------------------
(* C6 *)

MissingSourcesMessage ==
    <<"Invalid invocation.\n", "Error: No source files flag \"-s\" found.\n">>

\* C6: an invocation that passes the validator and has no "-s" ends with
\* status 1 and the file as it was before the run; and every run that ends
\* in an error (too few arguments, no flags marker, no sources marker, file
\* exists, file not created) leaves the file as it was before the run.
C6_ErrorsLeaveFile ==
    \A p \in Procs :
        /\ (Done(p) /\ PassesValidator(argv[p]) /\ ~Occurs(argv[p], "-s", 0)) =>
              /\ exitStatus[p] = 1
              /\ stdout[p] = MissingSourcesMessage \o printUsage
              /\ makeFile[p] = "none"
              /\ fs = fsAtStart[p]
        /\ (Done(p) /\ (exitStatus[p] = 1 \/ Argc(argv[p]) < 4)) =>
              /\ fs = fsAtStart[p]
              /\ makeFile[p] \in {"none", "null"}

\* A run without "-s" has ended in a directory that holds a Makefile.
C6_Witness ==
    /\ Done(1)
    /\ PassesValidator(argv[1])
    /\ ~Occurs(argv[1], "-s", 0)
    /\ fsAtStart[1] = UserFile

----------------------------------------------------------------------------
(* C7 *)

\* The lines of the file with n empty lines between the TARGETS= line and "all:".
FileLines(a, n) ==
    << <<"# Automatically generated makefile">>,
       <<"# Generated using makeGen by Juan Jovel">>,
       <<>>,
       <<"CC=", ExpectedCompiler(a)>>,
       <<"CFLAGS=">> \o Joined(a, 3, SourcesMarker(a) - 1),
       <<"TARGETS=">> \o Joined(a, SourcesMarker(a) + 1, SourcesEnd(a) - 1) >>
    \o [k \in 1..n |-> <<>>]
    \o << <<"all:">>,
          <<"\t", "$(CC) $(CFLAGS) -o ", Arg(a, 1), " $(TARGETS)">>,
          <<>>,
          <<"clean:">>,
          <<"\t", "rm -f ", Arg(a, 1)>>,
          <<>>,
          <<"# End automatically generated makeFile">> >>

\* The file is these lines, each ended by a line break.
FileIs(lines) ==
    /\ fs.exists
    /\ Lines(fs.content) = lines
    /\ fs.content[Len(fs.content)] = "\n"

\* C7 as claimed: three empty lines between the TARGETS= line and "all:".
C7_ThreeEmptyLines ==
    \A p \in Procs : Wrote(p) => FileIs(FileLines(argv[p], 3))

\* C7, amended: the written file is exactly the header, an empty line, the
\* CC=, CFLAGS= and TARGETS= lines, ONE empty line, "all:" and its
\* tab-indented body, an empty line, "clean:" and its tab-indented body, an
\* empty line and the closing comment; the output name is argv[1].
C7_FileLayout ==
    \A p \in Procs : Wrote(p) => FileIs(FileLines(argv[p], 1))

\* A file written with flags and sources.
C7_Witness ==
    /\ Wrote(1)
    /\ FileIs(FileLines(argv[1], 1))
    /\ Len(Lines(fs.content)) = 14
    /\ Len(Lines(fs.content)[5]) > 1
    /\ Len(Lines(fs.content)[6]) > 1

----------------------------------------------------------------------------
(* C8 *)

\* C8: the file is only ever created, never overwritten: when the file
\* exists at the moment an invocation opens it, the invocation ends with
\* status 1 and the file is left as it was.
C8_NeverOverwritten ==
    [][\A p \in Procs :
          (pc[p] = "open" /\ pc'[p] # "open" /\ fs.exists) =>
              (fs' = fs /\ pc'[p] = "done" /\ exitStatus'[p] = 1)]_vars

----------------------------------------------------------------------------
(* C9 *)

----------------------------------------------------------------------------
(* C10 *)

\* C10: the file is open only after the argument count, the flags marker and
\* the sources marker have been checked and the file found absent, and only
\* while the run goes on without having reported success; text is written
\* only to an open file; success is reported only once the file is closed;
\* and a run that has ended holds no open file: one that opened it has closed
\* it, reported success and ended with status 0.
C10_ScopedFile ==
    \A p \in Procs :
        /\ makeFile[p] = "open" =>
              /\ Valid(argv[p])
              /\ sourceFlagIdx[p] = SourcesMarker(argv[p])
              /\ ~fsAtStart[p].exists
              /\ ~Done(p)
              /\ stdout[p] = <<>>
        /\ makeFile[p] # "none" => Valid(argv[p]) /\ ~fsAtStart[p].exists
        /\ buffer[p] # <<>> => makeFile[p] = "open"
        /\ (\E k \in 1..Len(stdout[p]) : stdout[p][k] = alertSuccess[1]) =>
              makeFile[p] = "closed" /\ Done(p) /\ exitStatus[p] = 0
        /\ makeFile[p] = "closed" => buffer[p] = <<>> /\ fs.content # <<>>
        /\ Done(p) =>
              /\ makeFile[p] # "open"
              /\ makeFile[p] = "closed" <=> (exitStatus[p] = 0 /\ Argc(argv[p]) >= 4)
              /\ makeFile[p] = "closed" => stdout[p] = alertSuccess

\* A run that has closed the file but not yet reported success.
C10_Witness ==
    /\ makeFile[1] = "closed"
    /\ ~Done(1)
    /\ stdout[1] = <<>>
    /\ fs.exists

====
